---- MODULE Spec2Model ----
(***************************************************************************)
(* Kung-fu chess (CTD25/KFC_Py): the tick loop of Game.py, its command     *)
(* pipeline, collision resolution and pawn promotion.                      *)
(*                                                                         *)
(* Piece objects are numbered 1..4; a piece keeps its number when its id   *)
(* changes.  An id such as "PW1" is the tuple <<"P","W","",1>> and a       *)
(* minted "QW_1" is <<"Q","W","_",1>>: id[1] is Python's id[0] (the type)  *)
(* and id[2] is Python's id[1] (the side).                                 *)
(*                                                                         *)
(* Piece.py, State.py, Physics.py and Command.py are not among the         *)
(* sources; the piece state machine below follows spec.md 3 and 4.1.       *)
(***************************************************************************)
EXTENDS Integers, Sequences, FiniteSets, TLC

VARIABLES
    pieces,                   \* self.pieces: the live list (object numbers)
    piece,                    \* the Piece objects: id, machine, cell, state,
                              \* start_ms, target
    piece_by_id,              \* self.piece_by_id: id -> object number
    pos,                      \* self.pos: cell -> list of objects
    promoted_pawns,           \* self.promoted_pawns
    promoted_queens,          \* self.promoted_queens
    piece_previous_positions, \* self.piece_previous_positions: id -> cell
    should_exit,              \* self.should_exit
    win_announced,            \* hasattr(self, '_win_announced')
    published,                \* events published during the current tick
    n_captured,               \* PIECE_CAPTURED events published so far
    n_game_ended,             \* GAME_ENDED events published so far
    winner,                   \* local `winner` of the last collision pass, per cell
    user_input_queue,         \* self.user_input_queue
    issued,                   \* commands enqueued so far
    selectable,               \* the piece objects the players' commands name
    now,                      \* game_time_ms() sampled by the running tick
    pc,                       \* position of the loop in _run_game_loop
    _subscribers,             \* EventManager._subscribers: type -> callbacks
    last_call,                \* the last call made on the EventManager
    calls,                    \* the callbacks the last publish has called
    propagated,               \* the last publish raised to its publisher
    received_events,          \* events a recording callback has received
    _white_score,             \* ScoreTracker._white_score
    _black_score,             \* ScoreTracker._black_score
    moves,                    \* MoveTracker.moves
    reply,                    \* the message the server has last sent back
    clients,                  \* ChessGameServer.clients: player id -> connection
    handlers                  \* where handle_client is for each connection

gvars == <<pieces, piece, piece_by_id, pos, promoted_pawns, promoted_queens,
           piece_previous_positions, should_exit, win_announced, published,
           n_captured, n_game_ended, winner>>
vars == <<pieces, piece, piece_by_id, pos, promoted_pawns, promoted_queens,
          piece_previous_positions, should_exit, win_announced, published,
          n_captured, n_game_ended, winner, user_input_queue, issued,
          selectable, now, pc, _subscribers, last_call, calls, propagated,
          received_events, _white_score, _black_score, moves, reply,
          clients, handlers>>

(* the event bus and its subscribers; the game's own steps are followed    *)
(* through `published` and leave these alone                               *)
observers == <<_subscribers, last_call, calls, propagated, received_events,
               _white_score, _black_score, moves>>
(* the server's exchange with its clients; the registry and the handlers  *)
(* of the connections are followed where the connections are (SpecLobby)   *)
session == <<reply, clients, handlers>>

----------------------------------------------------------------------------
(* Bounds *)
MaxTime == 3
MaxCmds == 2
MaxEvents == 2
MaxTracked == 3
MaxQueued == 1
MaxConns == 3

(* Program constants *)
LastRow == 7
(* time.monotonic_ns() at construction: above every game_time_ms() *)
START_NS == MaxTime + 1

Objs  == 1..4
(* the cells of the 8x8 board the pieces of the model stand on or move to *)
Cells == {<<0, 0>>, <<0, 1>>, <<3, 0>>, <<3, 1>>, <<LastRow, 0>>}
None  == 0

PW1 == <<"P", "W", "", 1>>
PW2 == <<"P", "W", "", 2>>
PB1 == <<"P", "B", "", 1>>
NW1 == <<"N", "W", "", 1>>
NB1 == <<"N", "B", "", 1>>
KW1 == <<"K", "W", "", 1>>
KB1 == <<"K", "B", "", 1>>
ZZ9 == <<"Z", "Z", "", 9>>
NoId == <<"", "", "", 0>>

QueenId(piece_color, queen_number) == <<"Q", piece_color, "_", queen_number>>

(* machine is the piece type whose state machine (moves, physics) the     *)
(* piece is bound to: the type letter of its id until a promotion.          *)
(* moved_from is history, read by no handler: the cell the piece stood on *)
(* when the move it is making, or made last, began.                        *)
NewPiece(id, cell) ==
    [id |-> id, machine |-> id[1], cell |-> cell, state |-> "idle",
     start_ms |-> 0, target |-> cell, moved_from |-> cell]

(* how the construction of the queen state machine in a promotion ends:    *)
(* built and reset; absent (no img_factory, or the builder returned        *)
(* nothing); or raising, which the handler catches                          *)
BuildOutcomes == {"built", "absent", "raises"}

(* Initial placements: every one has both kings and no same-side overlap. *)
BoardPawns ==
    [piece |-> <<NewPiece(KW1, <<7, 0>>), NewPiece(KB1, <<0, 0>>),
                 NewPiece(PW1, <<3, 0>>), NewPiece(PB1, <<3, 1>>)>>,
     selectable |-> {1, 3, 4}]

BoardQueens ==
    [piece |-> <<NewPiece(KW1, <<7, 0>>), NewPiece(KB1, <<3, 1>>),
                 NewPiece(PW1, <<3, 0>>), NewPiece(PW2, <<0, 0>>)>>,
     selectable |-> {2, 3}]

(* the pawns' board with the white pawn alone taking commands *)
BoardSolo ==
    [piece |-> <<NewPiece(KW1, <<7, 0>>), NewPiece(KB1, <<0, 0>>),
                 NewPiece(PW1, <<3, 0>>), NewPiece(PB1, <<3, 1>>)>>,
     selectable |-> {3}]

BoardKnights ==
    [piece |-> <<NewPiece(KW1, <<7, 0>>), NewPiece(KB1, <<0, 0>>),
                 NewPiece(NW1, <<3, 0>>), NewPiece(NB1, <<3, 1>>)>>,
     selectable |-> {3, 4}]

----------------------------------------------------------------------------
(* The Piece / State / Physics interface *)

_side_of(piece_id) == piece_id[2]

current_cell(P, o) == P[o].cell

can_capture(P, o) == P[o].state \in {"move", "jump"}

can_be_captured(P, o) == P[o].state # "jump"

get_start_ms(P, o) == P[o].start_ms

(* PhysicsFactory.create: a knight's "move" state gets KnightJumpPhysics *)
IsKnightJumpPhysics(P, o) == P[o].id[1] = "N" /\ P[o].state = "move"

can_capture_at_current_position(P, o) == P[o].cell = P[o].target

(* A knight with jump physics that is not at its landing cell *)
PassingThrough(P, o) ==
    IsKnightJumpPhysics(P, o) /\ ~can_capture_at_current_position(P, o)

(* Piece.update(now): the records one call can leave the piece in *)
update(r, t) ==
    CASE r.state = "idle" -> {r}
      [] r.state = "move" /\ r.cell # r.target ->
            {r} \cup
            (IF r.id[1] = "N"
             THEN {[r EXCEPT !.cell = c] : c \in Cells \ {r.cell}}
             ELSE {[r EXCEPT !.cell = r.target]})
      [] r.state = "move" /\ r.cell = r.target ->
            {r, [r EXCEPT !.state = "rest", !.start_ms = t]}
      [] r.state = "jump" ->
            {r, [r EXCEPT !.state = "rest", !.start_ms = t]}
      [] OTHER ->
            {r, [r EXCEPT !.state = "idle", !.start_ms = t]}

SameSideAt(P, occ, cell, side) ==
    \E i \in 1..Len(occ[cell]) : _side_of(P[occ[cell][i]].id) = side

(* Piece.on_command(cmd, cell2piece): only the idle state has transitions  *)
(* for move and jump; a move to a cell the index shows as held by the      *)
(* mover's own side, or outside the board, is ignored.                     *)
on_command(r, cmd, P, occ) ==
    IF r.state # "idle" THEN r
    ELSE IF cmd.type = "move" /\ Len(cmd.params) >= 2
         THEN IF cmd.params[2] \in Cells
                 /\ ~SameSideAt(P, occ, cmd.params[2], _side_of(r.id))
              THEN [r EXCEPT !.state = "move", !.start_ms = cmd.timestamp,
                             !.target = cmd.params[2],
                             !.moved_from = r.cell]
              ELSE r
    ELSE IF cmd.type = "jump"
         THEN [r EXCEPT !.state = "jump", !.start_ms = cmd.timestamp]
    ELSE r

(* the test of the state's name left out *)
StrMentionsNothing(state) == FALSE

(* "move" in str(new_state).lower() *)
StrMentionsMove(state) == state = "move"

(* mover.state.moves.moves.get((dr, dc)) == "capture": a pawn's diagonal *)
IsCaptureDelta(r, dr, dc) == r.machine = "P" /\ dc # 0

----------------------------------------------------------------------------
(* The game object as one record, so that a handler is a function on it *)

Self ==
    [pieces |-> pieces, piece |-> piece, piece_by_id |-> piece_by_id,
     pos |-> pos, promoted_pawns |-> promoted_pawns,
     promoted_queens |-> promoted_queens,
     piece_previous_positions |-> piece_previous_positions,
     should_exit |-> should_exit, win_announced |-> win_announced,
     published |-> published, n_captured |-> n_captured,
     n_game_ended |-> n_game_ended, winner |-> winner]

Commit(result) ==
    \E g \in {result} :
        /\ pieces' = g.pieces
        /\ piece' = g.piece
        /\ piece_by_id' = g.piece_by_id
        /\ pos' = g.pos
        /\ promoted_pawns' = g.promoted_pawns
        /\ promoted_queens' = g.promoted_queens
        /\ piece_previous_positions' = g.piece_previous_positions
        /\ should_exit' = g.should_exit
        /\ win_announced' = g.win_announced
        /\ published' = g.published
        /\ n_captured' = g.n_captured
        /\ n_game_ended' = g.n_game_ended
        /\ winner' = g.winner

(* EventManager.publish as seen by the game: the event joins the stream *)
publish(g, ev) ==
    [g EXCEPT !.published = Append(@, ev),
              !.n_captured = IF ev.type = "PIECE_CAPTURED" THEN @ + 1 ELSE @,
              !.n_game_ended = IF ev.type = "GAME_ENDED" THEN @ + 1 ELSE @]

RECURSIVE SelectAt(_, _, _)
SelectAt(P, s, cell) ==
    IF s = <<>> THEN <<>>
    ELSE IF P[Head(s)].cell = cell
         THEN <<Head(s)>> \o SelectAt(P, Tail(s), cell)
         ELSE SelectAt(P, Tail(s), cell)

_update_cell2piece_map(g) ==
    [g EXCEPT !.pos = [c \in Cells |-> SelectAt(g.piece, g.pieces, c)]]

----------------------------------------------------------------------------
(* Promotion *)

RECURSIVE FirstFreeQueenNumber(_, _, _)
FirstFreeQueenNumber(by_id, piece_color, queen_number) ==
    IF QueenId(piece_color, queen_number) \in DOMAIN by_id
    THEN FirstFreeQueenNumber(by_id, piece_color, queen_number + 1)
    ELSE queen_number

Without(f, k) == [x \in (DOMAIN f) \ {k} |-> f[x]]
With(f, k, v) == [x \in (DOMAIN f) \cup {k} |-> IF x = k THEN v ELSE f[x]]

(* the two ids in each other's place *)
PromotionEventSwapped(new_id, old_id, new_position, t) ==
    [type |-> "PIECE_MOVED", piece |-> old_id,
     from |-> new_position, to |-> new_position,
     command_type |-> "promotion", game_time_ms |-> t,
     promotion |-> TRUE, old_piece_id |-> new_id]

(* the event published at the end of _promote_pawn_to_queen *)
PromotionEvent(new_id, old_id, new_position, t) ==
    [type |-> "PIECE_MOVED", piece |-> new_id,
     from |-> new_position, to |-> new_position,
     command_type |-> "promotion", game_time_ms |-> t,
     promotion |-> TRUE, old_piece_id |-> old_id]

(* no except clause: a raising construction leaves the handler before the  *)
(* event is published                                                      *)
PromoteUncaught(g, o, t, built) ==
    LET old_id == g.piece[o].id
        piece_color == old_id[2]
        new_id == QueenId(piece_color,
                          FirstFreeQueenNumber(g.piece_by_id, piece_color, 1))
        old_position == g.piece[o].cell
        queen == IF built = "built"
                 THEN [id |-> new_id, machine |-> "Q", cell |-> old_position,
                       state |-> "idle", start_ms |-> t,
                       target |-> old_position,
                       moved_from |-> g.piece[o].moved_from]
                 ELSE [g.piece[o] EXCEPT !.id = new_id]
        g1 == [g EXCEPT !.piece_by_id = With(Without(@, old_id), new_id, o),
                        !.piece = [@ EXCEPT ![o] = queen],
                        !.promoted_queens = @ \cup {new_id}]
    IN  IF old_id[1] # "P" THEN g
        ELSE IF built = "raises" THEN g1
        ELSE publish(g1, PromotionEvent(new_id, old_id, queen.cell, t))

(* the del of the old id left out *)
PromoteKeepingOldId(g, o, t, built) ==
    LET old_id == g.piece[o].id
        piece_color == old_id[2]
        new_id == QueenId(piece_color,
                          FirstFreeQueenNumber(g.piece_by_id, piece_color, 1))
        queen == IF built = "built"
                 THEN [id |-> new_id, machine |-> "Q", cell |-> g.piece[o].cell,
                       state |-> "idle", start_ms |-> t,
                       target |-> g.piece[o].cell,
                       moved_from |-> g.piece[o].moved_from]
                 ELSE [g.piece[o] EXCEPT !.id = new_id]
        g1 == [g EXCEPT !.piece_by_id = With(@, new_id, o),
                        !.piece = [@ EXCEPT ![o] = queen],
                        !.promoted_queens = @ \cup {new_id}]
    IN  IF old_id[1] # "P" THEN g
        ELSE publish(g1, PromotionEvent(new_id, old_id, queen.cell, t))

(* Game._promote_pawn_to_queen; built is the outcome of the try block that *)
(* constructs the queen state machine (one of BuildOutcomes).              *)
_promote_pawn_to_queen(g, o, t, built) ==
    LET old_id == g.piece[o].id
        piece_color == old_id[2]
        new_id == QueenId(piece_color,
                          FirstFreeQueenNumber(g.piece_by_id, piece_color, 1))
        old_position == g.piece[o].cell
        queen == IF built = "built"
                 THEN [id |-> new_id, machine |-> "Q", cell |-> old_position,
                       state |-> "idle", start_ms |-> t,
                       target |-> old_position,
                       moved_from |-> g.piece[o].moved_from]
                 ELSE [g.piece[o] EXCEPT !.id = new_id]
        g1 == [g EXCEPT !.piece_by_id = With(Without(@, old_id), new_id, o),
                        !.piece = [@ EXCEPT ![o] = queen],
                        !.promoted_queens = @ \cup {new_id}]
    IN  IF old_id[1] # "P" THEN g
        ELSE publish(g1, PromotionEvent(new_id, old_id, queen.cell, t))

(* promoted_pawns.add left out *)
CheckPromotionUnrecorded(g, o, position, t, built) ==
    LET id == g.piece[o].id
        should_promote == \/ id[2] = "W" /\ position[1] = 0
                          \/ id[2] = "B" /\ position[1] = LastRow
    IN  IF id[1] # "P" THEN g
        ELSE IF id \in g.promoted_pawns THEN g
        ELSE IF should_promote
             THEN CHOOSE after \in
                      {_promote_pawn_to_queen(g1, o, t, built) :
                          g1 \in {_update_cell2piece_map(g)}} : TRUE
             ELSE g

(* Game._check_pawn_promotion *)
_check_pawn_promotion(g, o, position, t, built) ==
    LET id == g.piece[o].id
        piece_color == id[2]
        should_promote == \/ piece_color = "W" /\ position[1] = 0
                          \/ piece_color = "B" /\ position[1] = LastRow
    IN  IF id[1] # "P" THEN g
        ELSE IF id \in g.promoted_pawns THEN g
        ELSE IF should_promote
             THEN CHOOSE after \in
                      {_promote_pawn_to_queen(g1, o, t, built) :
                          g1 \in {[_update_cell2piece_map(g)
                                     EXCEPT !.promoted_pawns = @ \cup {id}]}}
                      : TRUE
             ELSE g

RECURSIVE PostCollisionLoop(_, _, _, _)
PostCollisionLoop(g, s, t, built) ==
    IF s = <<>> THEN g
    ELSE LET p == Head(s)
             id == g.piece[p].id
             current_pos == g.piece[p].cell
             g1 == IF /\ id[1] = "P"
                      /\ id \notin g.promoted_pawns
                      /\ \/ id[2] = "W" /\ current_pos[1] = 0
                         \/ id[2] = "B" /\ current_pos[1] = LastRow
                   THEN _check_pawn_promotion(g, p, current_pos, t, built)
                   ELSE g
         IN  CHOOSE after \in {PostCollisionLoop(g2, Tail(s), t, built) :
                                   g2 \in {g1}} : TRUE

(* the post-collision check left out of the tick *)
PostCollisionChecksSkipped(g, t, built) == g

(* Game._check_post_collision_promotions *)
_check_post_collision_promotions(g, t, built) ==
    PostCollisionLoop(g, g.pieces, t, built)

----------------------------------------------------------------------------
(* The command pipeline *)

(* Game._process_input from the store of old_position on: the command    *)
(* names a piece of the lookup                                             *)
ForwardCommand(g, cmd, t, built) ==
    LET mover == g.piece_by_id[cmd.piece_id]
        old == g.piece[mover]
        old_position == old.cell
        is_move_command == cmd.type \in {"move", "capture", "jump"}
                           /\ Len(cmd.params) >= 2
        is_potential_capture ==
            /\ is_move_command
            /\ IsCaptureDelta(old, cmd.params[2][1] - cmd.params[1][1],
                                   cmd.params[2][2] - cmd.params[1][2])
        new == on_command(old, cmd, g.piece, g.pos)
        g1 == [g EXCEPT !.piece_previous_positions =
                            With(@, cmd.piece_id, old_position),
                        !.piece = [@ EXCEPT ![mover] = new]]
        position_changed == old_position # new.cell
        state_transitioned == old.state # new.state
        g2 == IF is_move_command
                 /\ (position_changed
                     \/ (state_transitioned /\ StrMentionsMove(new.state)))
              THEN IF ~is_potential_capture
                   THEN publish(
                          publish(g1, [type |-> "PIECE_MOVED",
                                       piece |-> cmd.piece_id,
                                       from |-> old_position,
                                       to |-> cmd.params[2],
                                       command_type |-> cmd.type,
                                       game_time_ms |-> t]),
                          [type |-> "TURN_CHANGED",
                           current_player |-> IF cmd.piece_id[2] = "W"
                                              THEN "white" ELSE "black",
                           move_piece |-> cmd.piece_id,
                           game_time_ms |-> t])
                   ELSE g1
              ELSE IF position_changed
                   THEN publish(g1, [type |-> "PIECE_MOVED",
                                     piece |-> cmd.piece_id,
                                     from |-> old_position,
                                     to |-> new.cell,
                                     command_type |-> cmd.type,
                                     game_time_ms |-> t])
                   ELSE g1
    IN  IF new.id[1] = "P" /\ cmd.type = "move" /\ Len(cmd.params) >= 2
        THEN CHOOSE after \in
                 {_check_pawn_promotion(g3, mover, g3.piece[mover].cell,
                                        t, built) : g3 \in {g2}} : TRUE
        ELSE g2

(* the previous position stored before the lookup is consulted *)
ProcessInputStoringFirst(g, cmd, t, built) ==
    IF cmd.type = "exit" THEN [g EXCEPT !.should_exit = TRUE]
    ELSE IF cmd.piece_id \notin DOMAIN g.piece_by_id
         THEN [g EXCEPT !.piece_previous_positions =
                            With(@, cmd.piece_id, cmd.params[1])]
    ELSE ForwardCommand(g, cmd, t, built)

(* Game._process_input *)
_process_input(g, cmd, t, built) ==
    IF cmd.type = "exit" THEN [g EXCEPT !.should_exit = TRUE]
    ELSE IF cmd.piece_id \notin DOMAIN g.piece_by_id THEN g
    ELSE ForwardCommand(g, cmd, t, built)

----------------------------------------------------------------------------
(* Collision resolution *)

RECURSIVE Remove(_, _)
Remove(s, x) ==
    IF s = <<>> THEN <<>>
    ELSE IF Head(s) = x THEN Tail(s) ELSE <<Head(s)>> \o Remove(Tail(s), x)

(* min instead of max: the earliest start wins *)
RECURSIVE MinByStart(_, _)
MinByStart(P, s) ==
    IF Len(s) = 1 THEN s[1]
    ELSE LET m == MinByStart(P, Tail(s))
         IN  IF get_start_ms(P, Head(s)) <= get_start_ms(P, m)
             THEN Head(s) ELSE m

(* Python's max(seq, key=get_start_ms): the first of the greatest *)
RECURSIVE MaxByStart(_, _)
MaxByStart(P, s) ==
    IF Len(s) = 1 THEN s[1]
    ELSE LET m == MaxByStart(P, Tail(s))
         IN  IF get_start_ms(P, Head(s)) >= get_start_ms(P, m)
             THEN Head(s) ELSE m

IsAttacking(P, p) ==
    /\ can_capture(P, p)
    /\ IsKnightJumpPhysics(P, p) => can_capture_at_current_position(P, p)

NotPassing(P, p) == ~PassingThrough(P, p)

(* the fallback max(plist) taken when only passing knights share the cell *)
PickWinnerFallback(P, plist) ==
    LET attacks(p) == IsAttacking(P, p)
        stays(p) == NotPassing(P, p)
        attacking_pieces == SelectSeq(plist, attacks)
        non_knight_pieces == SelectSeq(plist, stays)
    IN  IF attacking_pieces = <<>>
        THEN IF non_knight_pieces # <<>>
             THEN MaxByStart(P, non_knight_pieces)
             ELSE MaxByStart(P, plist)
        ELSE MaxByStart(P, attacking_pieces)

(* the winner the loop body picks for one cell, None when it continues *)
PickWinner(P, plist) ==
    LET attacks(p) == IsAttacking(P, p)
        stays(p) == NotPassing(P, p)
        attacking_pieces == SelectSeq(plist, attacks)
        non_knight_pieces == SelectSeq(plist, stays)
    IN  IF attacking_pieces = <<>>
        THEN IF non_knight_pieces # <<>>
             THEN MaxByStart(P, non_knight_pieces)
             ELSE None
        ELSE MaxByStart(P, attacking_pieces)

(* the knight carve-out left out: a knight in transit is captured too *)
IsCapturedByInTransit(P, p, w) ==
    /\ p # w
    /\ can_be_captured(P, p)
    /\ _side_of(P[p].id) # _side_of(P[w].id)

(* the side test left out: the winner's own side is captured too *)
IsCapturedByAnySide(P, p, w) ==
    /\ p # w
    /\ ~PassingThrough(P, p)
    /\ can_be_captured(P, p)

(* the test p is not winner left out: the winner is captured as well *)
IsCapturedWithWinner(P, p, w) ==
    /\ ~PassingThrough(P, p)
    /\ can_be_captured(P, p)
    /\ p = w \/ _side_of(P[p].id) # _side_of(P[w].id)

(* the condition under which the loop body removes p, given the winner w *)
IsCapturedBy(P, p, w) ==
    /\ p # w
    /\ ~PassingThrough(P, p)
    /\ can_be_captured(P, p)
    /\ _side_of(P[p].id) # _side_of(P[w].id)

RECURSIVE RemoveAll(_, _)
RemoveAll(s, gone) ==
    IF gone = <<>> THEN s ELSE RemoveAll(Remove(s, Head(gone)), Tail(gone))

RECURSIVE PublishCaptures(_, _, _, _, _)
PublishCaptures(g, captured_pieces, w, cell, t) ==
    IF captured_pieces = <<>> THEN g
    ELSE LET wid == g.piece[w].id
             attacker_prev_pos ==
                 IF wid \in DOMAIN g.piece_previous_positions
                 THEN g.piece_previous_positions[wid] ELSE <<0, 0>>
         IN  PublishCaptures(
                 publish(g, [type |-> "PIECE_CAPTURED",
                             piece_type |-> g.piece[Head(captured_pieces)].id,
                             captured_by |-> wid,
                             from_position |-> attacker_prev_pos,
                             position |-> cell,
                             game_time_ms |-> t]),
                 Tail(captured_pieces), w, cell, t)

(* one iteration of `for cell, plist in occupied.items()` *)
ResolveCell(g, cell, t) ==
    LET plist == g.pos[cell]
        w == PickWinner(g.piece, plist)
        captured_pieces ==
            LET Hit(p) == IsCapturedBy(g.piece, p, w) IN SelectSeq(plist, Hit)
    IN  IF Len(plist) < 2 \/ w = None THEN g
        ELSE PublishCaptures(
                 [g EXCEPT !.pieces = RemoveAll(@, captured_pieces),
                           !.winner = [@ EXCEPT ![cell] = w]],
                 captured_pieces, w, cell, t)

(* the keys of self.pos in insertion order *)
RECURSIVE CellOrder(_, _, _)
CellOrder(P, s, seen) ==
    IF s = <<>> THEN <<>>
    ELSE IF P[Head(s)].cell \in seen THEN CellOrder(P, Tail(s), seen)
         ELSE <<P[Head(s)].cell>>
              \o CellOrder(P, Tail(s), seen \cup {P[Head(s)].cell})

RECURSIVE ResolveCells(_, _, _)
ResolveCells(g, cells, t) ==
    IF cells = <<>> THEN g
    ELSE CHOOSE after \in {ResolveCells(g1, Tail(cells), t) :
                               g1 \in {ResolveCell(g, Head(cells), t)}} : TRUE

(* Game._resolve_collisions *)
_resolve_collisions(g, t) ==
    CHOOSE after \in
        {ResolveCells(g1, CellOrder(g1.piece, g1.pieces, {}), t) :
            g1 \in {[_update_cell2piece_map(g)
                        EXCEPT !.winner = [c \in Cells |-> None]]}} : TRUE

----------------------------------------------------------------------------
(* The win check *)

IsKing(id) == id[1] = "K" /\ id[2] \in {"W", "B"}

_is_win(g) ==
    Cardinality({i \in 1..Len(g.pieces) : IsKing(g.piece[g.pieces[i]].id)}) < 2

(* the loop left on a win *)
AnnounceWinAndExit(g, t) ==
    IF _is_win(g) /\ ~g.win_announced
    THEN publish([g EXCEPT !.win_announced = TRUE, !.should_exit = TRUE],
                 [type |-> "GAME_ENDED", game_time_ms |-> t,
                  winner |-> "win"])
    ELSE g

(* Game._check_and_announce_win *)
_check_and_announce_win(g, t) ==
    IF _is_win(g) /\ ~g.win_announced
    THEN LET winner_text ==
                 IF \E i \in 1..Len(g.pieces) :
                        g.piece[g.pieces[i]].id[1] = "K"
                        /\ g.piece[g.pieces[i]].id[2] = "B"
                 THEN "Black wins!" ELSE "White wins!"
         IN  publish([g EXCEPT !.win_announced = TRUE],
                     [type |-> "GAME_ENDED", game_time_ms |-> t,
                      winner |-> winner_text])
    ELSE g

----------------------------------------------------------------------------
(* The event bus (events/event_manager.py) and its subscribers *)

EventTypes ==
    {"PIECE_MOVED", "PIECE_CAPTURED", "GAME_STARTED", "GAME_ENDED",
     "TURN_CHANGED"}

(* the callbacks of tests/test_event_manager.py: two that record the event *)
(* and one that raises                                                     *)
RecordingCallbacks == {"callback1", "callback2"}
TestCallbacks == RecordingCallbacks \cup {"error_callback"}

(* what 'Unknown' is as an id: its second character is no side *)
Unknown == <<"U", "n", "known", 0>>

(* data.get(key, default) *)
Get(data, key, default) == IF key \in DOMAIN data THEN data[key] ELSE default

Contains(s, x) == \E i \in 1..Len(s) : s[i] = x

(* list.remove(x): the first occurrence *)
RECURSIVE RemoveFirst(_, _)
RemoveFirst(s, x) ==
    IF s = <<>> THEN <<>>
    ELSE IF Head(s) = x THEN Tail(s)
         ELSE <<Head(s)>> \o RemoveFirst(Tail(s), x)

(* the membership test left out *)
SubscribeAlways(subs, event_type, callback) ==
    [subs EXCEPT ![event_type] = Append(@, callback)]

(* EventManager.subscribe *)
subscribe(subs, event_type, callback) ==
    IF ~Contains(subs[event_type], callback)
    THEN [subs EXCEPT ![event_type] = Append(@, callback)]
    ELSE subs

(* the callback removed from the list of every type *)
UnsubscribeEverywhere(subs, event_type, callback) ==
    [t \in DOMAIN subs |-> RemoveFirst(subs[t], callback)]

(* EventManager.unsubscribe *)
unsubscribe(subs, event_type, callback) ==
    IF Contains(subs[event_type], callback)
    THEN [subs EXCEPT ![event_type] = RemoveFirst(@, callback)]
    ELSE subs

(* EventManager.get_subscriber_count *)
get_subscriber_count(subs, event_type) == Len(subs[event_type])

(* ScoreTracker.PIECE_VALUES.get(piece_type, 0) *)
PIECE_VALUES(piece_type) ==
    CASE piece_type = "P" -> 1
      [] piece_type = "N" -> 3
      [] piece_type = "B" -> 3
      [] piece_type = "R" -> 5
      [] piece_type = "Q" -> 9
      [] piece_type = "K" -> 0
      [] OTHER -> 0

(* ScoreTracker.on_piece_captured *)
score_on_piece_captured(b, event) ==
    LET captured_piece_id == Get(event, "piece_type", <<>>)
        piece_value == PIECE_VALUES(captured_piece_id[1])
        piece_color == captured_piece_id[2]
    IN  IF Len(captured_piece_id) < 2 THEN b
        ELSE IF piece_color = "W"
             THEN [b EXCEPT !._black_score = @ + piece_value]
        ELSE IF piece_color = "B"
             THEN [b EXCEPT !._white_score = @ + piece_value]
        ELSE b

(* the scores carried over a game start *)
ScoreKeptOnStart(b, event) == b

(* ScoreTracker.on_game_started *)
score_on_game_started(b, event) ==
    [b EXCEPT !._white_score = 0, !._black_score = 0]

(* An entry of MoveTracker.moves.  The entry is a string in the code; head *)
(* is its first character, which is all that get_move_count reads of it.   *)
(* f"{piece_id}: {from_pos} -> {to_pos} [{game_time}ms]"                   *)
MoveEntry(piece_id, from_pos, to_pos, game_time) ==
    [head |-> IF Len(piece_id) = 0 THEN ":" ELSE piece_id[1],
     kind |-> "move", piece |-> piece_id, by |-> NoId,
     from |-> from_pos, to |-> to_pos, game_time_ms |-> game_time]

(* f"CAPTURE: {captured_piece} captured by {captured_by} at {position} ..." *)
CaptureEntry(captured_piece, captured_by, position, game_time) ==
    [head |-> "C", kind |-> "capture", piece |-> captured_piece,
     by |-> captured_by, from |-> position, to |-> position,
     game_time_ms |-> game_time]

(* "=== GAME STARTED ===" *)
StartMarker ==
    [head |-> "=", kind |-> "marker", piece |-> NoId, by |-> NoId,
     from |-> <<0, 0>>, to |-> <<0, 0>>, game_time_ms |-> 0]

(* MoveTracker.on_piece_moved *)
moves_on_piece_moved(b, event) ==
    [b EXCEPT !.moves =
        Append(@, MoveEntry(Get(event, "piece", Unknown),
                            Get(event, "from", <<0, 0>>),
                            Get(event, "to", <<0, 0>>),
                            Get(event, "game_time_ms", 0)))]

(* MoveTracker.on_piece_captured *)
moves_on_piece_captured(b, event) ==
    LET captured_by == Get(event, "captured_by", Unknown)
    IN  IF Len(captured_by) >= 2
        THEN [b EXCEPT !.moves =
                 Append(@, CaptureEntry(Get(event, "piece_type", Unknown),
                                        captured_by,
                                        Get(event, "position", <<0, 0>>),
                                        Get(event, "game_time_ms", 0)))]
        ELSE b

(* the clear left out: the marker is appended to the old history *)
MovesKeptOnStart(b, event) ==
    [b EXCEPT !.moves = Append(@, StartMarker)]

(* MoveTracker.on_game_started *)
moves_on_game_started(b, event) ==
    [b EXCEPT !.moves = <<StartMarker>>]

(* MoveTracker.get_move_count: the entries that do not start with "=" *)
get_move_count(history) ==
    LET counted(move) == move.head # "=" IN Len(SelectSeq(history, counted))

(* Python's s[start:] *)
SliceFrom(s, start) ==
    LET n == Len(s)
        first == IF start < 0
                 THEN (IF n + start < 0 THEN 0 ELSE n + start)
                 ELSE (IF start > n THEN n ELSE start)
    IN  SubSeq(s, first + 1, n)

(* MoveTracker.get_last_moves *)
get_last_moves(history, count) ==
    IF count <= Len(history) THEN SliceFrom(history, 0 - count) ELSE history

(* callbacks that call the bus back while an event is delivered to them:  *)
(* one that serves a single event and unsubscribes itself from the         *)
(* event's type, one that subscribes callback2 for the event's type        *)
ReentrantCallbacks == {"once_callback", "adding_callback"}

(* does callback(event) raise *)
Raises(callback, event) == callback = "error_callback"

(* the state of the subscribers after callback(event) has returned *)
Call(b, callback, event) ==
    CASE callback = "MoveTracker.on_piece_moved" ->
            moves_on_piece_moved(b, event)
      [] callback = "MoveTracker.on_piece_captured" ->
            moves_on_piece_captured(b, event)
      [] callback = "MoveTracker.on_game_started" ->
            moves_on_game_started(b, event)
      [] callback = "ScoreTracker.on_piece_captured" ->
            score_on_piece_captured(b, event)
      [] callback = "ScoreTracker.on_game_started" ->
            score_on_game_started(b, event)
      [] callback \in RecordingCallbacks ->
            [b EXCEPT !.received_events[callback] = @ + 1]
      [] callback = "once_callback" ->
            [b EXCEPT !._subscribers = unsubscribe(@, event.type, callback)]
      [] callback = "adding_callback" ->
            [b EXCEPT !._subscribers = subscribe(@, event.type, "callback2")]
      [] OTHER -> b

(* no try around the call: the first raise ends the loop and reaches the   *)
(* publisher                                                               *)
RECURSIVE NotifyUncaught(_, _, _)
NotifyUncaught(b, event, i) ==
    IF i > Len(b._subscribers[event.type]) THEN b
    ELSE LET callback == b._subscribers[event.type][i]
             called == [b EXCEPT !.calls = Append(@, callback)]
         IN  IF Raises(callback, event)
             THEN [called EXCEPT !.propagated = TRUE]
             ELSE CHOOSE after \in
                      {NotifyUncaught(b1, event, i + 1) :
                          b1 \in {Call(called, callback, event)}} : TRUE

(* the list walked from its end *)
RECURSIVE NotifyNewestFirst(_, _, _)
NotifyNewestFirst(b, event, i) ==
    IF i > Len(b._subscribers[event.type]) THEN b
    ELSE LET n == Len(b._subscribers[event.type])
             callback == b._subscribers[event.type][n + 1 - i]
             called == [b EXCEPT !.calls = Append(@, callback)]
         IN  CHOOSE after \in
                 {NotifyNewestFirst(b1, event, i + 1) :
                     b1 \in {IF Raises(callback, event) THEN called
                             ELSE Call(called, callback, event)}} : TRUE

(* `for callback in subscribers: try: callback(event) except Exception`:   *)
(* the walk over the list from its i-th element on                         *)
RECURSIVE Notify(_, _, _)
Notify(b, event, i) ==
    IF i > Len(b._subscribers[event.type]) THEN b
    ELSE LET callback == b._subscribers[event.type][i]
             called == [b EXCEPT !.calls = Append(@, callback)]
         IN  CHOOSE after \in
                 {Notify(b1, event, i + 1) :
                     b1 \in {IF Raises(callback, event) THEN called
                             ELSE Call(called, callback, event)}} : TRUE

(* EventManager.publish *)
EventManager_publish(b, event) ==
    Notify([b EXCEPT !.calls = <<>>, !.propagated = FALSE], event, 1)

(* the subscriptions made by Game.__init__: MoveTracker, ScoreTracker,     *)
(* then the game's own display and sound callbacks                         *)
GameSubscribers ==
    [t \in EventTypes |->
        CASE t = "PIECE_MOVED" ->
                <<"MoveTracker.on_piece_moved", "Game.on_piece_moved_sound">>
          [] t = "PIECE_CAPTURED" ->
                <<"MoveTracker.on_piece_captured",
                  "ScoreTracker.on_piece_captured",
                  "Game.on_piece_captured_display",
                  "Game.on_piece_captured_sound">>
          [] t = "GAME_STARTED" ->
                <<"MoveTracker.on_game_started",
                  "ScoreTracker.on_game_started">>
          [] t = "GAME_ENDED" -> <<"ScoreTracker.on_game_ended">>
          [] OTHER -> <<>>]

(* the bus and its subscribers as one record *)
Bus ==
    [_subscribers |-> _subscribers, last_call |-> last_call, calls |-> calls,
     propagated |-> propagated, received_events |-> received_events,
     _white_score |-> _white_score, _black_score |-> _black_score,
     moves |-> moves]

CommitBus(result) ==
    \E b \in {result} :
        /\ _subscribers' = b._subscribers
        /\ last_call' = b.last_call
        /\ calls' = b.calls
        /\ propagated' = b.propagated
        /\ received_events' = b.received_events
        /\ _white_score' = b._white_score
        /\ _black_score' = b._black_score
        /\ moves' = b.moves

(* no call made yet *)
NoCall == [op |-> "none", event_type |-> "", callback |-> ""]

(* nothing sent yet *)
NoReply == [type |-> "none", message |-> ""]

(* the connections a server sees in its life, in the order they arrive *)
Conns == 1..MaxConns

(* handle_client has not been called for the connection yet *)
NotConnected == [stage |-> "none", client_id |-> ""]

----------------------------------------------------------------------------
(* The program *)

Start(board) ==
    /\ piece = board.piece
    /\ selectable = board.selectable
    /\ pieces = <<1, 2, 3, 4>>
    /\ piece_by_id = [id \in {piece[o].id : o \in Objs} |->
                          CHOOSE o \in Objs : piece[o].id = id]
    /\ pos = [c \in Cells |-> <<>>]
    /\ promoted_pawns = {}
    /\ promoted_queens = {}
    /\ piece_previous_positions = <<>>
    /\ should_exit = FALSE
    /\ win_announced = FALSE
    /\ published = <<>>
    /\ n_captured = 0
    /\ n_game_ended = 0
    /\ winner = [c \in Cells |-> None]
    /\ user_input_queue = <<>>
    /\ issued = 0
    /\ now = 0
    /\ pc = "run"
    /\ _subscribers = GameSubscribers
    /\ last_call = NoCall
    /\ calls = <<>>
    /\ propagated = FALSE
    /\ received_events = [c \in RecordingCallbacks |-> 0]
    /\ _white_score = 0
    /\ _black_score = 0
    /\ moves = <<>>
    /\ reply = NoReply
    /\ clients = <<>>
    /\ handlers = [k \in Conns |-> NotConnected]

Init == Start(BoardPawns)

InitQueens == Start(BoardQueens)

InitKnights == Start(BoardKnights)

InitSolo == Start(BoardSolo)

(* Game.run up to the loop: GAME_STARTED, then every piece is reset *)
RunStart ==
    /\ pc = "run"
    /\ Commit(publish(
           [Self EXCEPT !.piece =
                [o \in Objs |-> [piece[o] EXCEPT !.state = "idle",
                                                 !.start_ms = START_NS,
                                                 !.target = piece[o].cell]]],
           [type |-> "GAME_STARTED", game_time_ms |-> now]))
    /\ pc' = "loop"
    /\ UNCHANGED <<observers, session,
                 user_input_queue, issued, selectable, now>>

(* the commands a producer can build *)
Commands ==
    {[timestamp |-> now, piece_id |-> NoId, type |-> "exit", params |-> <<>>]}
    \cup
    UNION {
      LET from == IF id \in DOMAIN piece_by_id
                  THEN piece[piece_by_id[id]].cell ELSE <<3, 0>>
      IN  {[timestamp |-> now, piece_id |-> id, type |-> "move",
            params |-> <<from, to>>] : to \in Cells \ {from}}
          \cup
          {[timestamp |-> now, piece_id |-> id, type |-> "jump",
            params |-> <<from>>]}
      : id \in {i \in DOMAIN piece_by_id : piece_by_id[i] \in selectable} }
    \cup
    {[timestamp |-> now, piece_id |-> ZZ9, type |-> "move",
      params |-> <<<<3, 0>>, <<0, 0>>>>]}

(* KeyboardProducer / a network handler: user_input_queue.put(cmd) *)
Enqueue ==
    /\ pc = "drain"
    /\ issued < MaxCmds
    /\ \E cmd \in Commands : user_input_queue' = Append(user_input_queue, cmd)
    /\ issued' = issued + 1
    /\ UNCHANGED <<observers, session, gvars, selectable, now, pc>>

(* _run_game_loop: now = game_time_ms(); p.update(now) for every live     *)
(* piece; _update_cell2piece_map()                                         *)
Advance ==
    /\ pc = "loop"
    /\ ~should_exit
    /\ now < MaxTime
    /\ now' = now + 1
    /\ \E P \in [Objs -> UNION {update(piece[o], now') : o \in Objs}] :
          /\ \A o \in Objs :
                IF \E i \in 1..Len(pieces) : pieces[i] = o
                THEN P[o] \in update(piece[o], now')
                ELSE P[o] = piece[o]
          /\ Commit(_update_cell2piece_map(
                        [Self EXCEPT !.piece = P, !.published = <<>>]))
    /\ pc' = "drain"
    /\ UNCHANGED <<observers, session, user_input_queue, issued, selectable>>

(* the newest command taken instead of the oldest *)
ProcessInputNewestFirst ==
    /\ pc = "drain"
    /\ user_input_queue # <<>>
    /\ \E built \in BuildOutcomes :
          Commit(_process_input(Self, user_input_queue[Len(user_input_queue)],
                                now, built))
    /\ user_input_queue' = SubSeq(user_input_queue, 1, Len(user_input_queue) - 1)
    /\ UNCHANGED <<observers, session, issued, selectable, now, pc>>

(* while not user_input_queue.empty(): _process_input(get()) *)
ProcessInput ==
    /\ pc = "drain"
    /\ user_input_queue # <<>>
    /\ \E built \in BuildOutcomes :
          Commit(_process_input(Self, Head(user_input_queue), now, built))
    /\ user_input_queue' = Tail(user_input_queue)
    /\ UNCHANGED <<observers, session, issued, selectable, now, pc>>

(* the loop goes from the drain to the promotion check *)
DrainDoneSkippingCollisions ==
    /\ pc = "drain"
    /\ user_input_queue = <<>>
    /\ pc' = "promote"
    /\ UNCHANGED <<observers, session,
                 gvars, user_input_queue, issued, selectable, now>>

DrainDone ==
    /\ pc = "drain"
    /\ user_input_queue = <<>>
    /\ pc' = "collide"
    /\ UNCHANGED <<observers, session,
                 gvars, user_input_queue, issued, selectable, now>>

ResolveCollisions ==
    /\ pc = "collide"
    /\ Commit(_resolve_collisions(Self, now))
    /\ pc' = "promote"
    /\ UNCHANGED <<observers, session,
                 user_input_queue, issued, selectable, now>>

CheckPostCollisionPromotions ==
    /\ pc = "promote"
    /\ \E built \in BuildOutcomes :
          Commit(_check_post_collision_promotions(Self, now, built))
    /\ pc' = "win"
    /\ UNCHANGED <<observers, session,
                 user_input_queue, issued, selectable, now>>

CheckAndAnnounceWin ==
    /\ pc = "win"
    /\ Commit(_check_and_announce_win(Self, now))
    /\ pc' = "loop"
    /\ UNCHANGED <<observers, session,
                 user_input_queue, issued, selectable, now>>

(* Game.run after the loop: the final GAME_ENDED *)
RunEnd ==
    /\ pc = "loop"
    /\ should_exit
    /\ Commit(publish(Self, [type |-> "GAME_ENDED", game_time_ms |-> now]))
    /\ pc' = "done"
    /\ UNCHANGED <<observers, session,
                 user_input_queue, issued, selectable, now>>

Next ==
    \/ RunStart
    \/ Enqueue
    \/ Advance
    \/ ProcessInput
    \/ DrainDone
    \/ ResolveCollisions
    \/ CheckPostCollisionPromotions
    \/ CheckAndAnnounceWin
    \/ RunEnd

Spec == Init /\ [][Next]_vars

SpecQueens == InitQueens /\ [][Next]_vars

SpecKnights == InitKnights /\ [][Next]_vars

(* A producer thread runs beside the loop: its put can fall between any    *)
(* two steps of a tick, from start_user_input_thread to the stop of the    *)
(* producers at the end of run.                                            *)
Produce ==
    /\ pc \notin {"run", "done"}
    /\ issued < MaxCmds
    /\ \E cmd \in Commands : user_input_queue' = Append(user_input_queue, cmd)
    /\ issued' = issued + 1
    /\ UNCHANGED <<observers, session, gvars, selectable, now, pc>>

(* the steps of the one thread that runs Game.run *)
LoopStep ==
    \/ RunStart
    \/ Advance
    \/ ProcessInput
    \/ DrainDone
    \/ ResolveCollisions
    \/ CheckPostCollisionPromotions
    \/ CheckAndAnnounceWin
    \/ RunEnd

NextLoop ==
    \/ Produce
    \/ RunStart
    \/ Advance
    \/ ProcessInput
    \/ DrainDone
    \/ ResolveCollisions
    \/ CheckPostCollisionPromotions
    \/ CheckAndAnnounceWin
    \/ RunEnd

(* the thread of Game.run is never held up: it blocks on nothing *)
SpecLoop == InitSolo /\ [][NextLoop]_vars /\ WF_vars(LoopStep)

(* A producer that never stops: whenever the queue has room it can put    *)
(* another command, so the number of commands of a run is not bounded;     *)
(* the queue's length is, to keep the states finite.                       *)
ProduceOn ==
    /\ pc \notin {"run", "done"}
    /\ Len(user_input_queue) < MaxQueued
    /\ \E cmd \in Commands : user_input_queue' = Append(user_input_queue, cmd)
    /\ UNCHANGED <<observers, session, gvars, issued, selectable, now, pc>>

NextFlood ==
    \/ ProduceOn
    \/ RunStart
    \/ Advance
    \/ ProcessInput
    \/ DrainDone
    \/ ResolveCollisions
    \/ CheckPostCollisionPromotions
    \/ CheckAndAnnounceWin
    \/ RunEnd

(* the loop's thread is never held up; the producer is under no obligation *)
SpecFlood == InitSolo /\ [][NextFlood]_vars /\ WF_vars(LoopStep)

----------------------------------------------------------------------------
(* The server variant: ChessGameServer owns a ServerGame whose run() is    *)
(* overridden to do nothing; no loop ticks, and each session's handler     *)
(* works on the game object itself.                                        *)

(* the cells a client names as destination: an empty one, the one the      *)
(* white king stands on, and one off the board                             *)
Destinations == {<<0, 1>>, <<LastRow, 0>>, <<LastRow + 1, 0>>}

(* ServerGame.validate_move *)
validate_move(g, piece_id, from_pos, to_pos) ==
    /\ piece_id \in DOMAIN g.piece_by_id
    /\ g.piece[g.piece_by_id[piece_id]].cell = from_pos
    /\ 0 <= to_pos[1] /\ to_pos[1] <= LastRow
    /\ 0 <= to_pos[2] /\ to_pos[2] <= LastRow
    /\ to_pos \in Cells => ~SameSideAt(g.piece, g.pos, to_pos, _side_of(piece_id))

(* ServerGame.execute_move: the command is built and handed to the         *)
(* pipeline in the caller's own thread                                     *)
execute_move(g, piece_id, from_pos, to_pos, t, built) ==
    IF ~validate_move(g, piece_id, from_pos, to_pos) THEN g
    ELSE _process_input(g, [timestamp |-> t, piece_id |-> piece_id,
                            type |-> "move",
                            params |-> <<from_pos, to_pos>>], t, built)

(* the ownership test left out *)
BelongsToAnyone(g, piece_id, player_color) == TRUE

(* ChessGameServer.piece_belongs_to_player *)
piece_belongs_to_player(g, piece_id, player_color) ==
    _side_of(piece_id) = player_color

(* ChessGameServer.start_game: the second client has joined; game_status   *)
(* is "playing" from here on, which the position "serve" stands for        *)
StartGame ==
    /\ pc = "run"
    /\ pc' = "serve"
    /\ UNCHANGED <<observers, session,
                 gvars, user_input_queue, issued, selectable, now>>

(* game_time_ms() grows between two messages *)
ServerClock ==
    /\ pc = "serve"
    /\ now < MaxTime
    /\ now' = now + 1
    /\ UNCHANGED <<observers, session,
                 gvars, user_input_queue, issued, selectable, pc>>

(* the finally of ChessGameServer.handle_client: one client has left while *)
(* the other is still connected, and game_status goes back to "waiting"    *)
ClientLeaves ==
    /\ pc = "serve"
    /\ pc' = "paused"
    /\ UNCHANGED <<observers, session,
                 gvars, user_input_queue, issued, selectable, now>>

(* the ids a client names: the pieces' and one that no piece carries *)
ClientIds == {KW1, KB1, PW1, PB1, PW2}

(* self.game_status at the position the server is in *)
game_status == IF pc = "serve" THEN "playing" ELSE "waiting"

Error(message) == [type |-> "error", message |-> message]

(* ChessGameServer.handle_move for a move or capture message of the client *)
(* playing player_color: the game it leaves and the message it sends back  *)
handle_move(g, status, player_color, piece_id, from_pos, to_pos, t, built) ==
    IF status # "playing"
    THEN [game |-> g, reply |-> Error("Game is not in progress")]
    ELSE IF ~piece_belongs_to_player(g, piece_id, player_color)
    THEN [game |-> g, reply |-> Error("You can only move your own pieces")]
    ELSE [game |-> execute_move(g, piece_id, from_pos, to_pos, t, built),
          reply |-> IF validate_move(g, piece_id, from_pos, to_pos)
                    THEN [type |-> "move_executed", message |-> ""]
                    ELSE Error("Invalid move")]

(* a session takes one message of its client *)
HandleMove ==
    /\ pc \in {"run", "serve", "paused"}
    /\ issued < MaxCmds
    /\ \E color \in {"W", "B"}, piece_id \in ClientIds,
          from_pos \in Cells, to_pos \in Destinations,
          built \in BuildOutcomes :
          \E handled \in {handle_move(Self, game_status, color, piece_id,
                                      from_pos, to_pos, now, built)} :
              /\ Commit(handled.game)
              /\ reply' = handled.reply
    /\ issued' = issued + 1
    /\ UNCHANGED <<observers, clients, handlers,
                   user_input_queue, selectable, now, pc>>

NextServer ==
    \/ StartGame
    \/ ServerClock
    \/ ClientLeaves
    \/ HandleMove

SpecServer == Init /\ [][NextServer]_vars

(* The connections: handle_client runs once per connection, as a task of   *)
(* the one event loop; a task gives way to the others at an await only.    *)

(* f"player_{len(self.clients) + 1}" *)
player_id(n) ==
    CASE n = 1 -> "player_1"
      [] n = 2 -> "player_2"
      [] OTHER -> "player_3"

Registered == DOMAIN clients

(* the game start_game builds: create_game's board in a ServerGame *)
NewServerGame(board) ==
    [pieces |-> <<1, 2, 3, 4>>, piece |-> board.piece,
     piece_by_id |-> [id \in {board.piece[o].id : o \in Objs} |->
                          CHOOSE o \in Objs : board.piece[o].id = id],
     pos |-> [c \in Cells |-> <<>>],
     promoted_pawns |-> {}, promoted_queens |-> {},
     piece_previous_positions |-> <<>>,
     should_exit |-> FALSE, win_announced |-> FALSE,
     published |-> <<>>, n_captured |-> 0, n_game_ended |-> 0,
     winner |-> [c \in Cells |-> None]]

(* handle_client up to its first await: the id and the colour follow from  *)
(* the size of the registry; with two registered the connection is         *)
(* refused, else it is stored under its id and the welcome is sent         *)
Connect ==
    /\ \E k \in Conns :
          /\ handlers[k].stage = "none"
          /\ k > 1 => handlers[k - 1].stage # "none"
          /\ LET n == Cardinality(Registered)
                 client_id == player_id(n + 1)
             IN  IF n >= 2
                 THEN /\ reply' = Error("Game is full. Only 2 players allowed.")
                      /\ handlers' = [handlers EXCEPT ![k] =
                             [stage |-> "refused", client_id |-> client_id]]
                      /\ UNCHANGED clients
                 ELSE /\ clients' = With(clients, client_id,
                             [websocket |-> k,
                              color |-> IF n = 0 THEN "W" ELSE "B"])
                      /\ reply' = [type |-> "welcome", message |-> client_id]
                      /\ handlers' = [handlers EXCEPT ![k] =
                             [stage |-> "welcome", client_id |-> client_id]]
    /\ UNCHANGED <<observers, gvars, user_input_queue, issued, selectable,
                   now, pc>>

(* handle_client from the return of the welcome to the message loop:       *)
(* start_game when two clients are registered                              *)
Welcomed ==
    /\ \E k \in Conns :
          /\ handlers[k].stage = "welcome"
          /\ handlers' = [handlers EXCEPT ![k].stage = "open"]
    /\ IF Cardinality(Registered) = 2
       THEN Commit(NewServerGame(BoardPawns)) /\ pc' = "serve"
       ELSE UNCHANGED <<gvars, pc>>
    /\ UNCHANGED <<observers, reply, clients, user_input_queue, issued,
                   selectable, now>>

(* `async for message in websocket: await self.handle_message(...)` for a  *)
(* move message: handle_move reads the client's colour in the registry     *)
(* under the handler's id, and a missing key is answered by handle_message *)
ClientMessage ==
    /\ issued < MaxCmds
    /\ \E k \in Conns, piece_id \in ClientIds, from_pos \in Cells,
          to_pos \in Destinations, built \in BuildOutcomes :
          /\ handlers[k].stage = "open"
          /\ LET id == handlers[k].client_id
             IN  IF game_status = "playing" /\ id \notin Registered
                 THEN /\ reply' = Error("Server error processing message")
                      /\ UNCHANGED gvars
                 ELSE \E handled \in
                          {handle_move(Self, game_status,
                                       IF id \in Registered
                                       THEN clients[id].color ELSE "",
                                       piece_id, from_pos, to_pos, now,
                                       built)} :
                          /\ Commit(handled.game)
                          /\ reply' = handled.reply
    /\ issued' = issued + 1
    /\ UNCHANGED <<observers, clients, handlers,
                   user_input_queue, selectable, now, pc>>

(* the finally of handle_client up to its await: the entry under the       *)
(* handler's id is deleted; while playing with a client left, the          *)
(* broadcast of player_disconnected is awaited                             *)
Disconnect ==
    /\ \E k \in Conns :
          /\ handlers[k].stage = "open"
          /\ LET id == handlers[k].client_id
             IN  IF id \in Registered
                 THEN /\ clients' = Without(clients, id)
                      /\ handlers' = [handlers EXCEPT ![k].stage =
                             IF game_status = "playing"
                                /\ Registered \ {id} # {}
                             THEN "leaving" ELSE "closed"]
                 ELSE /\ handlers' = [handlers EXCEPT ![k].stage = "closed"]
                      /\ UNCHANGED clients
    /\ UNCHANGED <<observers, reply, gvars, user_input_queue, issued,
                   selectable, now, pc>>

(* the broadcast has returned: self.game_status = "waiting" *)
Paused ==
    /\ \E k \in Conns :
          /\ handlers[k].stage = "leaving"
          /\ handlers' = [handlers EXCEPT ![k].stage = "closed"]
    /\ pc' = "paused"
    /\ UNCHANGED <<observers, reply, clients, gvars, user_input_queue,
                   issued, selectable, now>>

NextLobby ==
    \/ Connect
    \/ Welcomed
    \/ ClientMessage
    \/ Disconnect
    \/ Paused

SpecLobby == Init /\ [][NextLobby]_vars

----------------------------------------------------------------------------
(* Construction: Game.__init__ validates the placement it is given *)

RECURSIVE ValidateFrom(_, _, _, _, _)
ValidateFrom(P, i, seen_cells, has_white_king, has_black_king) ==
    IF i > Len(P) THEN has_white_king /\ has_black_king
    ELSE LET id == P[i].id
             cell == P[i].cell
         IN  IF cell \in DOMAIN seen_cells /\ seen_cells[cell] = id[2]
             THEN FALSE
             ELSE ValidateFrom(
                      P, i + 1,
                      IF cell \in DOMAIN seen_cells THEN seen_cells
                      ELSE With(seen_cells, cell, id[2]),
                      has_white_king \/ (id[1] = "K" /\ id[2] = "W"),
                      has_black_king \/ (id[1] = "K" /\ id[2] = "B"))

(* Game._validate *)
_validate(P) == ValidateFrom(P, 1, <<>>, FALSE, FALSE)

PB2 == <<"P", "B", "", 2>>

(* the cells of the placements handed to the constructor *)
PlacementCells == {<<0, 0>>, <<3, 0>>}

(* lists of four pieces with distinct ids, in every order, on any cells *)
Placements ==
    {[o \in Objs |-> NewPiece(ids[o], cells[o])] :
        ids \in {f \in [Objs -> {KW1, KB1, PW1, PB1, PB2}] :
                    \A a, b \in Objs : a # b => f[a] # f[b]},
        cells \in [Objs -> PlacementCells]}

(* no Game object yet: an EventManager without subscribers, and nothing   *)
(* else                                                                    *)
NoGame ==
    /\ selectable = {}
    /\ pieces = <<>>
    /\ piece_by_id = <<>>
    /\ pos = [c \in Cells |-> <<>>]
    /\ promoted_pawns = {}
    /\ promoted_queens = {}
    /\ piece_previous_positions = <<>>
    /\ should_exit = FALSE
    /\ win_announced = FALSE
    /\ published = <<>>
    /\ n_captured = 0
    /\ n_game_ended = 0
    /\ winner = [c \in Cells |-> None]
    /\ user_input_queue = <<>>
    /\ issued = 0
    /\ now = 0
    /\ pc = "new"
    /\ _subscribers = [t \in EventTypes |-> <<>>]
    /\ last_call = NoCall
    /\ calls = <<>>
    /\ propagated = FALSE
    /\ received_events = [c \in RecordingCallbacks |-> 0]
    /\ _white_score = 0
    /\ _black_score = 0
    /\ moves = <<>>
    /\ reply = NoReply
    /\ clients = <<>>
    /\ handlers = [k \in Conns |-> NotConnected]

InitConstruct == piece \in Placements /\ NoGame

(* Game.__init__ past the validation: the game exists *)
ConstructGame ==
    /\ pc = "new"
    /\ _validate(piece)
    /\ pieces' = <<1, 2, 3, 4>>
    /\ piece_by_id' = [id \in {piece[o].id : o \in Objs} |->
                           CHOOSE o \in Objs : piece[o].id = id]
    /\ _subscribers' = GameSubscribers
    /\ pc' = "run"
    /\ UNCHANGED <<piece, pos, promoted_pawns, promoted_queens,
                   piece_previous_positions, should_exit, win_announced,
                   published, n_captured, n_game_ended, winner,
                   user_input_queue, issued, selectable, now, last_call, calls,
                   propagated, received_events, _white_score, _black_score,
                   moves, session>>

(* raise InvalidBoard("missing kings"): no game object comes to exist *)
RaiseInvalidBoard ==
    /\ pc = "new"
    /\ ~_validate(piece)
    /\ pc' = "invalid"
    /\ UNCHANGED <<gvars, user_input_queue, issued, selectable, now,
                   observers, session>>

NextConstruct ==
    \/ ConstructGame
    \/ RaiseInvalidBoard

SpecConstruct == InitConstruct /\ [][NextConstruct]_vars

----------------------------------------------------------------------------
(* The EventManager on its own, as tests/test_event_manager.py drives it:  *)
(* callers subscribe and unsubscribe the test callbacks and publish        *)
(* events of two types, in any order                                       *)

BusTypes == {"PIECE_MOVED", "PIECE_CAPTURED"}

TestEvents ==
    {[type |-> "PIECE_MOVED", piece |-> PW1],
     [type |-> "PIECE_CAPTURED", piece_type |-> PB1]}

(* the (type, callback) pairs the callers name: every test callback for   *)
(* PIECE_MOVED and one of them for PIECE_CAPTURED as well                  *)
Subscriptions ==
    {<<"PIECE_MOVED", callback>> : callback \in TestCallbacks}
    \cup {<<"PIECE_CAPTURED", "callback1">>}

InitBus == piece = BoardPawns.piece /\ NoGame

(* event_manager.subscribe(event_type, callback) *)
Subscribe ==
    /\ \E sub \in Subscriptions :
          /\ _subscribers' = subscribe(_subscribers, sub[1], sub[2])
          /\ last_call' = [op |-> "subscribe", event_type |-> sub[1],
                           callback |-> sub[2]]
    /\ UNCHANGED <<gvars, user_input_queue, issued, selectable, now, pc,
                   calls, propagated, received_events, _white_score,
                   _black_score, moves, session>>

(* event_manager.unsubscribe(event_type, callback) *)
Unsubscribe ==
    /\ \E sub \in Subscriptions :
          /\ _subscribers' = unsubscribe(_subscribers, sub[1], sub[2])
          /\ last_call' = [op |-> "unsubscribe", event_type |-> sub[1],
                           callback |-> sub[2]]
    /\ UNCHANGED <<gvars, user_input_queue, issued, selectable, now, pc,
                   calls, propagated, received_events, _white_score,
                   _black_score, moves, session>>

(* event_manager.publish(event); `published` keeps the events published *)
Publish ==
    /\ Len(published) < MaxEvents
    /\ \E event \in TestEvents :
          /\ CommitBus([EventManager_publish(Bus, event)
                          EXCEPT !.last_call =
                              [op |-> "publish", event_type |-> event.type,
                               callback |-> ""]])
          /\ published' = Append(published, event)
    /\ UNCHANGED <<pieces, piece, piece_by_id, pos, promoted_pawns,
                   promoted_queens, piece_previous_positions, should_exit,
                   win_announced, n_captured, n_game_ended, winner,
                   user_input_queue, issued, selectable, now, pc, session>>

NextBus ==
    \/ Subscribe
    \/ Unsubscribe
    \/ Publish

SpecBus == InitBus /\ [][NextBus]_vars

(* The EventManager with callbacks that call it back: callers subscribe   *)
(* the recording and the re-entrant callbacks for PIECE_MOVED in any order *)
(* and publish                                                             *)
ReentrantSubscriptions ==
    {<<"PIECE_MOVED", callback>> :
        callback \in RecordingCallbacks \cup ReentrantCallbacks}

SubscribeHandler ==
    /\ \E sub \in ReentrantSubscriptions :
          /\ _subscribers' = subscribe(_subscribers, sub[1], sub[2])
          /\ last_call' = [op |-> "subscribe", event_type |-> sub[1],
                           callback |-> sub[2]]
    /\ UNCHANGED <<gvars, user_input_queue, issued, selectable, now, pc,
                   calls, propagated, received_events, _white_score,
                   _black_score, moves, session>>

NextReentrant ==
    \/ SubscribeHandler
    \/ Publish

SpecReentrant == InitBus /\ [][NextReentrant]_vars

----------------------------------------------------------------------------
(* The trackers behind the bus of a constructed game: the events the game  *)
(* publishes, in any order, reach MoveTracker and ScoreTracker through the *)
(* subscriptions made at construction                                      *)

(* the ids a captured piece can carry: every type letter of PIECE_VALUES   *)
(* and one letter that is not in the table, of either side                 *)
CapturedIds ==
    {<<letter, side, "", 1>> :
        letter \in {"P", "N", "B", "R", "Q", "K", "X"}, side \in {"W", "B"}}

(* the events of Game.py, by their data *)
TrackerEvents ==
    {[type |-> "PIECE_MOVED", piece |-> id, from |-> <<3, 0>>,
      to |-> <<2, 0>>, command_type |-> "move", game_time_ms |-> 0] :
        id \in {PW1, PB1}}
    \cup {[type |-> "PIECE_CAPTURED", piece_type |-> id,
           captured_by |-> IF _side_of(id) = "W" THEN PB1 ELSE PW1,
           from_position |-> <<3, 0>>, position |-> <<2, 0>>,
           game_time_ms |-> 0] : id \in CapturedIds}
    \cup {[type |-> "GAME_STARTED", game_time_ms |-> 0],
          [type |-> "GAME_ENDED", game_time_ms |-> 0],
          [type |-> "TURN_CHANGED", current_player |-> "white",
           move_piece |-> PW1, game_time_ms |-> 0]}

(* self.event_manager.publish(Event(...)) of the game *)
PublishGameEvent ==
    /\ Len(published) < MaxTracked
    /\ \E event \in TrackerEvents :
          /\ CommitBus([EventManager_publish(Bus, event)
                          EXCEPT !.last_call =
                              [op |-> "publish", event_type |-> event.type,
                               callback |-> ""]])
          /\ published' = Append(published, event)
    /\ UNCHANGED <<pieces, piece, piece_by_id, pos, promoted_pawns,
                   promoted_queens, piece_previous_positions, should_exit,
                   win_announced, n_captured, n_game_ended, winner,
                   user_input_queue, issued, selectable, now, pc, session>>

SpecTrackers == Init /\ [][PublishGameEvent]_vars

----------------------------------------------------------------------------
(* Vocabulary of the properties, in terms of the pieces' own fields *)

SeqSet(s) == {s[i] : i \in 1..Len(s)}

Live(o) == o \in SeqSet(pieces)

LiveIds == {piece[o].id : o \in SeqSet(pieces)}

(* the collision pass of this tick has just run: pos holds the occupants it *)
(* saw, the pieces are as it saw them, published holds this tick's events  *)
AfterCollisions == pc = "promote"

Contested(c) == Len(pos[c]) >= 2

KnightJumping(o) == piece[o].id[1] = "N" /\ piece[o].state = "move"

KnightInTransit(o) == KnightJumping(o) /\ piece[o].cell # piece[o].target

ReportsCanCapture(o) == piece[o].state \in {"move", "jump"}

ReportsCanBeCaptured(o) == piece[o].state # "jump"

Attackers(c) ==
    {o \in SeqSet(pos[c]) : ReportsCanCapture(o) /\ ~KnightInTransit(o)}

CapturesAt(c) ==
    {i \in 1..Len(published) :
        published[i].type = "PIECE_CAPTURED" /\ published[i].position = c}

CaptureEvents == {i \in 1..Len(published) : published[i].type = "PIECE_CAPTURED"}

----------------------------------------------------------------------------
(* C1: in a contested cell that holds an attacker, the winner is an        *)
(* attacker whose start timestamp is the greatest among the cell's         *)
(* attackers; it survives and every capture at the cell is made by it.     *)
C1_WinnerIsLatestAttacker ==
    AfterCollisions =>
        \A c \in Cells :
            (Contested(c) /\ Attackers(c) # {}) =>
                /\ winner[c] \in Attackers(c)
                /\ \A a \in Attackers(c) :
                       piece[winner[c]].start_ms >= piece[a].start_ms
                /\ Live(winner[c])
                /\ \A i \in CapturesAt(c) :
                       published[i].captured_by = piece[winner[c]].id

(* two opposing attackers with different start timestamps met: the later   *)
(* one won and the earlier one was captured by it                          *)
C1_Witness ==
    /\ AfterCollisions
    /\ \E c \in Cells : \E a, b \in Attackers(c) :
          /\ piece[a].start_ms < piece[b].start_ms
          /\ piece[a].id[2] # piece[b].id[2]
          /\ winner[c] = b
          /\ ~Live(a)
          /\ \E i \in CapturesAt(c) :
                /\ published[i].piece_type = piece[a].id
                /\ published[i].captured_by = piece[b].id

(* C2: an occupant of a contested cell leaves the live list in the pass    *)
(* exactly when the cell has a winner other than it, it reports            *)
(* can_be_captured, it is no knight passing through and its side is not    *)
(* the winner's; every other occupant stays live.                          *)
C2_CapturedExactlyWhen ==
    AfterCollisions =>
        \A c \in Cells : Contested(c) =>
            \A p \in SeqSet(pos[c]) :
                (~Live(p)) <=>
                    /\ winner[c] # None
                    /\ p # winner[c]
                    /\ ReportsCanBeCaptured(p)
                    /\ ~KnightInTransit(p)
                    /\ piece[p].id[2] # piece[winner[c]].id[2]

(* a contested cell where one occupant was captured and another occupant,  *)
(* not the winner, stayed *)
C2_Witness ==
    /\ AfterCollisions
    /\ \E c \in Cells : \E p, q \in SeqSet(pos[c]) :
          /\ ~Live(p)
          /\ q # winner[c]
          /\ Live(q)

(* C3: once collision resolution has run in a tick, no cell holds two live *)
(* pieces of the same side.                                                *)
C3_NoSameSideOverlap ==
    pc \in {"promote", "win"} =>
        \A p, q \in SeqSet(pieces) :
            (p # q /\ piece[p].cell = piece[q].cell) =>
                piece[p].id[2] # piece[q].id[2]

(* C4: a knight with jump physics that is not at its landing cell neither  *)
(* captures nor is captured: no PIECE_CAPTURED event of the pass names it  *)
(* as captor or as captured; a knight at its landing cell that shares the  *)
(* cell with one capturable enemy gives exactly one PIECE_CAPTURED there.  *)
C4_KnightPassThrough ==
    AfterCollisions =>
        /\ \A o \in Objs :
              (KnightInTransit(o) /\ o \in SeqSet(pos[piece[o].cell])) =>
                  \A i \in CaptureEvents :
                      /\ published[i].captured_by # piece[o].id
                      /\ published[i].piece_type # piece[o].id
        /\ \A c \in Cells : \A k, e \in SeqSet(pos[c]) :
              ( /\ Len(pos[c]) = 2
                /\ k # e
                /\ KnightJumping(k) /\ ~KnightInTransit(k)
                /\ piece[e].id[2] # piece[k].id[2]
                /\ ReportsCanBeCaptured(e) /\ ~KnightInTransit(e) )
              => Cardinality(CapturesAt(c)) = 1

(* a knight in transit shared a cell with a capturable enemy and the pass  *)
(* published no capture at that cell                                       *)
C4_Witness ==
    /\ AfterCollisions
    /\ \E o \in Objs : \E e \in SeqSet(pos[piece[o].cell]) :
          /\ KnightInTransit(o)
          /\ o \in SeqSet(pos[piece[o].cell])
          /\ piece[e].id[2] # piece[o].id[2]
          /\ ReportsCanBeCaptured(e) /\ ~KnightInTransit(e)
          /\ CapturesAt(piece[o].cell) = {}
          /\ Live(o) /\ Live(e)

(* C5: in a contested cell without an attacker the winner is the occupant  *)
(* with the greatest start timestamp among those that are not knights      *)
(* passing through; when all occupants are knights passing through there   *)
(* is no winner and nothing is captured at the cell.                       *)
C5_NoAttackerWinner ==
    AfterCollisions =>
        \A c \in Cells :
            (Contested(c) /\ Attackers(c) = {}) =>
                LET staying == {o \in SeqSet(pos[c]) : ~KnightInTransit(o)}
                IN  IF staying # {}
                    THEN /\ winner[c] \in staying
                         /\ \A o \in staying :
                               piece[winner[c]].start_ms >= piece[o].start_ms
                    ELSE /\ winner[c] = None
                         /\ CapturesAt(c) = {}
                         /\ \A o \in SeqSet(pos[c]) : Live(o)

(* two knights in transit alone on one cell, of opposite sides *)
C5_Witness ==
    /\ AfterCollisions
    /\ \E c \in Cells : \E p, q \in SeqSet(pos[c]) :
          /\ piece[p].id[2] # piece[q].id[2]
          /\ \A o \in SeqSet(pos[c]) : KnightInTransit(o)
          /\ winner[c] = None

(* C6: the ids found in the occupancy index are exactly the ids of the     *)
(* id -> piece lookup, once the index has been built.                      *)
C6_IndexMatchesLookup ==
    now >= 1 =>
        {piece[o].id : o \in UNION {SeqSet(pos[c]) : c \in Cells}}
            = DOMAIN piece_by_id

SmallestUnused(side) ==
    CHOOSE n \in 1..(Cardinality(Objs) + 1) :
        /\ QueenId(side, n) \notin LiveIds
        /\ \A k \in 1..(n - 1) : QueenId(side, k) \in LiveIds

(* C8: a promotion mints Q<side>_<n> with n the smallest positive integer  *)
(* whose id no piece of that side uses, and no two live pieces ever own    *)
(* the same id.                                                            *)
C8_SmallestUnusedQueenNumber ==
    /\ [](\A p, q \in SeqSet(pieces) : piece[p].id = piece[q].id => p = q)
    /\ [][ \A o \in Objs :
              piece'[o].id # piece[o].id =>
                  piece'[o].id = QueenId(piece[o].id[2],
                                         SmallestUnused(piece[o].id[2])) ]_vars

(* C9: a pawn is promoted at most once, one queen id is minted per         *)
(* promoted pawn however often the check runs, and the ledger only grows.  *)
C9_PromotedOnce ==
    /\ [](/\ Cardinality(promoted_queens) = Cardinality(promoted_pawns)
          /\ \A id \in promoted_pawns : id[1] = "P"
          /\ \A id \in promoted_queens : id[1] = "Q")
    /\ [][ /\ promoted_pawns \subseteq promoted_pawns'
           /\ promoted_queens \subseteq promoted_queens'
           /\ \A o \in Objs :
                 piece[o].id \in promoted_queens =>
                     piece'[o].id = piece[o].id ]_vars

(* a promoted piece went through the post-collision check of a later tick *)
C9_Witness ==
    /\ pc = "win"
    /\ \E o \in SeqSet(pieces) : piece[o].id \in promoted_queens
    /\ \A i \in 1..Len(published) : published[i].type # "PIECE_MOVED"

OnOwnBackRank(r) ==
    \/ r.id[2] = "W" /\ r.cell[1] = 0
    \/ r.id[2] = "B" /\ r.cell[1] = LastRow

(* C10: a pawn is promoted only on its opposing back rank and only as a    *)
(* surviving pawn after the tick's collision resolution; otherwise it      *)
(* keeps its id and the lookup is unchanged.                               *)
C10_PromotedOnlyAfterCollisions ==
    [][ /\ \A o \in Objs :
              piece'[o].id # piece[o].id =>
                  /\ OnOwnBackRank(piece[o])
                  /\ pc = "promote"
                  /\ Live(o)
        /\ piece_by_id' # piece_by_id =>
              \E o \in Objs : piece'[o].id # piece[o].id ]_vars

(* the events the step has published *)
NewEvents ==
    IF Len(published') >= Len(published)
       /\ SubSeq(published', 1, Len(published)) = published
    THEN (Len(published) + 1)..Len(published')
    ELSE 1..Len(published')

IsPromotionEvent(e) ==
    e.type = "PIECE_MOVED" /\ "promotion" \in DOMAIN e /\ e.promotion = TRUE

Promoted == {o \in Objs : piece'[o].id # piece[o].id}

(* C11: every promotion publishes exactly one PIECE_MOVED marked           *)
(* promotion that carries the new queen id as piece, the retired pawn id   *)
(* as old_piece_id and equal from and to cells; no step publishes a        *)
(* promotion-marked event without a promotion.                             *)
C11_OnePromotionEvent ==
    [][ /\ \A o \in Promoted :
              Cardinality({i \in NewEvents :
                  /\ IsPromotionEvent(published'[i])
                  /\ published'[i].piece = piece'[o].id
                  /\ published'[i].old_piece_id = piece[o].id
                  /\ published'[i].from = piece'[o].cell
                  /\ published'[i].to = published'[i].from}) = 1
        /\ Cardinality({i \in NewEvents : IsPromotionEvent(published'[i])})
              = Cardinality(Promoted) ]_vars

(* the tick's events hold a promotion event whose piece resolves, as a     *)
(* promoted queen, at the event's cell                                     *)
C11_Witness ==
    \E i \in 1..Len(published) :
        /\ IsPromotionEvent(published[i])
        /\ published[i].piece \in promoted_queens
        /\ published[i].old_piece_id \in promoted_pawns
        /\ piece[piece_by_id[published[i].piece]].cell = published[i].to

Draining ==
    /\ pc = "drain"
    /\ user_input_queue # <<>>
    /\ user_input_queue' = Tail(user_input_queue)

(* C13: a command other than exit whose piece_id is not a key of the       *)
(* lookup changes no piece, no lookup, no ledger and publishes no event:   *)
(* the game is as it was.                                                  *)
C13_UnknownIdDropped ==
    [][ ( /\ Draining
          /\ Head(user_input_queue).type # "exit"
          /\ Head(user_input_queue).piece_id \notin DOMAIN piece_by_id )
        => UNCHANGED gvars ]_vars

(* the only command of the first tick was drained and named no piece of    *)
(* the lookup: no previous position was stored, no event published         *)
C13_Witness ==
    /\ pc = "collide"
    /\ now = 1
    /\ issued = 1
    /\ user_input_queue = <<>>
    /\ ~should_exit
    /\ DOMAIN piece_previous_positions = {}
    /\ published = <<>>

(* the piece the command at the head of the queue resolves to *)
Mover == piece_by_id[Head(user_input_queue).piece_id]

(* the drain step forwards a command to a piece and does not promote it *)
Forwarding ==
    /\ Draining
    /\ Head(user_input_queue).type # "exit"
    /\ Head(user_input_queue).piece_id \in DOMAIN piece_by_id
    /\ Promoted = {}

(* the PIECE_MOVED events the step has published for the piece `id` *)
MovedEvents(id) ==
    {i \in NewEvents : /\ published'[i].type = "PIECE_MOVED"
                       /\ published'[i].piece = id}

IsMoveCommand(cmd) ==
    cmd.type \in {"move", "capture", "jump"} /\ Len(cmd.params) >= 2

(* the delta of the command is a capture pattern of the mover's moves *)
CapturePattern(cmd, o) ==
    /\ IsMoveCommand(cmd)
    /\ piece[o].machine = "P"
    /\ cmd.params[2][2] # cmd.params[1][2]

StepOrder ==
    {<<"run", "loop">>, <<"loop", "drain">>, <<"drain", "collide">>,
     <<"collide", "promote">>, <<"promote", "win">>, <<"win", "loop">>,
     <<"loop", "done">>}

(* pos is the index of the live pieces as they are after the step *)
IndexRebuilt ==
    \A c \in Cells :
        SeqSet(pos'[c]) = {o \in SeqSet(pieces') : piece'[o].cell = c}

(* C15: a tick advances every piece and rebuilds the occupancy index,      *)
(* then drains the queue through the pipeline, then resolves collisions,   *)
(* then re-checks promotions for the surviving pawns, then checks the win  *)
(* condition; commands are taken from the queue in the drain only, so none *)
(* is processed between collision resolution and the win check.            *)
C15_TickOrder ==
    [][ /\ pc' # pc => <<pc, pc'>> \in StepOrder
        /\ now' # now => /\ <<pc, pc'>> = <<"loop", "drain">>
                         /\ IndexRebuilt
        /\ (\E o \in Objs : piece'[o].cell # piece[o].cell) => now' # now
        /\ Len(user_input_queue') < Len(user_input_queue) =>
              pc = "drain" /\ pc' = "drain"
        /\ pieces' # pieces => <<pc, pc'>> = <<"collide", "promote">>
        /\ n_captured' # n_captured => <<pc, pc'>> = <<"collide", "promote">>
        /\ Promoted # {} => pc = "drain" \/ <<pc, pc'>> = <<"promote", "win">>
        /\ <<pc, pc'>> = <<"promote", "win">> =>
              \A o \in SeqSet(pieces') :
                  piece'[o].id[1] = "P" => ~OnOwnBackRank(piece'[o])
        /\ win_announced' # win_announced => <<pc, pc'>> = <<"win", "loop">>
        /\ <<pc, pc'>> = <<"win", "loop">> =>
              (Cardinality({o \in SeqSet(pieces) : piece[o].id[1] = "K"}) < 2
                  => win_announced')
      ]_vars

(* a capture of this tick is resolved and the win check is next, while a   *)
(* command put since the drain waits in the queue                          *)
C15_Witness ==
    /\ pc = "win"
    /\ user_input_queue # <<>>
    /\ \E i \in 1..Len(published) : published[i].type = "PIECE_CAPTURED"

LiveKingIds == {id \in LiveIds : IsKing(id)}

(* C16: GAME_ENDED is published once at most, and only when fewer than two *)
(* king ids are live: as long as two kings live no GAME_ENDED is in the    *)
(* stream, and no later capture or exit adds a second one.                 *)
C16_GameEndedOnce ==
    /\ n_game_ended <= 1
    /\ n_game_ended >= 1 => Cardinality(LiveKingIds) < 2

(* C17: once the win has been announced, a command taken from the queue    *)
(* changes no piece's state, position or identity.                         *)
C17_EndedIsTerminal ==
    [][ win_announced /\ Draining =>
            piece' = piece /\ piece_by_id' = piece_by_id ]_vars

C19_QueueFifoOnce ==
    [][ /\ user_input_queue' # user_input_queue =>
              \/ /\ \E cmd \in Commands :
                        user_input_queue' = Append(user_input_queue, cmd)
                 /\ issued' = issued + 1
                 /\ UNCHANGED <<gvars, pc>>
              \/ /\ pc = "drain" /\ pc' = "drain"
                 /\ user_input_queue # <<>>
                 /\ user_input_queue' = Tail(user_input_queue)
                 /\ issued' = issued
                 /\ \E built \in BuildOutcomes :
                        Commit(_process_input(Self, Head(user_input_queue),
                                              now, built))
        /\ <<pc, pc'>> = <<"drain", "collide">> => user_input_queue = <<>>
        /\ pc = "collide" => pc' = "collide" \/ pieces' = _resolve_collisions(Self, now).pieces
      ]_vars

(* two commands were in the queue at the drain: the older one, a move of   *)
(* PW1, has been applied and the newer one is now at the head              *)
C19_Witness ==
    /\ pc = "drain"
    /\ Len(user_input_queue) = 1
    /\ issued = 2
    /\ Head(user_input_queue).type = "exit"
    /\ ~should_exit
    /\ PW1 \in DOMAIN piece_previous_positions
    /\ piece[piece_by_id[PW1]].state = "move"
    /\ piece[piece_by_id[PW1]].start_ms = now

(* C20: a producer's step (a keyboard thread's, or a session handler's for *)
(* a message it does not answer with an error) appends one command to the  *)
(* queue and changes no piece, no lookup and no ledger.                    *)
C20_ProducersOnlyEnqueue ==
    [][ issued' # issued /\ reply'.type # "error" =>
            /\ \E cmd \in Commands :
                   user_input_queue' = Append(user_input_queue, cmd)
            /\ UNCHANGED <<piece, pieces, piece_by_id, promoted_pawns,
                           promoted_queens>> ]_vars

(* a white and a black king are in the list *)
HasBothKings(P) ==
    /\ \E o \in DOMAIN P : P[o].id[1] = "K" /\ P[o].id[2] = "W"
    /\ \E o \in DOMAIN P : P[o].id[1] = "K" /\ P[o].id[2] = "B"

(* two pieces of one side stand on one cell *)
SameSideOverlap(P) ==
    \E a, b \in DOMAIN P :
        a # b /\ P[a].cell = P[b].cell /\ P[a].id[2] = P[b].id[2]

(* C21: the constructor creates the game exactly when the placement has a  *)
(* white and a black king and no cell holds two pieces of one side, and    *)
(* raises InvalidBoard otherwise, whatever the order of the list.          *)
C21_ConstructedIffWellFormed ==
    /\ pc = "run" => HasBothKings(piece) /\ ~SameSideOverlap(piece)
    /\ pc = "invalid" => ~(HasBothKings(piece) /\ ~SameSideOverlap(piece))

(* the step is a publish: one event joins the stream *)
Publishing == Len(published') = Len(published) + 1

PublishedEvent == published'[Len(published')]

NoDuplicates(s) == \A i, j \in 1..Len(s) : i # j => s[i] # s[j]

(* C22: subscribe is idempotent per (event type, callback): no callback is *)
(* twice in the list of a type, subscribing a registered callback leaves   *)
(* every list and every count as it is, and subscribing a new one appends  *)
(* it to the list of its type alone.                                       *)
C22_SubscribeIdempotent ==
    /\ [](\A t \in EventTypes : NoDuplicates(_subscribers[t]))
    /\ [][ last_call'.op = "subscribe" =>
             LET t == last_call'.event_type
                 c == last_call'.callback
             IN  /\ Contains(_subscribers[t], c) =>
                        /\ _subscribers' = _subscribers
                        /\ get_subscriber_count(_subscribers', t)
                               = get_subscriber_count(_subscribers, t)
                 /\ ~Contains(_subscribers[t], c) =>
                        /\ _subscribers'[t] = Append(_subscribers[t], c)
                        /\ \A u \in EventTypes \ {t} :
                               _subscribers'[u] = _subscribers[u]
         ]_vars

(* callback1 was registered before callback2 and has just been subscribed  *)
(* again: the list still holds it once, in its old place                   *)
C22_Witness ==
    /\ last_call = [op |-> "subscribe", event_type |-> "PIECE_MOVED",
                    callback |-> "callback1"]
    /\ _subscribers["PIECE_MOVED"] = <<"callback1", "callback2">>

C24_RaiseContained ==
    /\ [](~propagated)
    /\ [][ Publishing =>
             /\ \A i \in 1..Len(_subscribers[PublishedEvent.type]) :
                    Contains(calls', _subscribers[PublishedEvent.type][i])
             /\ \A c \in RecordingCallbacks :
                    Contains(_subscribers[PublishedEvent.type], c) =>
                        received_events'[c] = received_events[c] + 1
         ]_vars

(* error_callback is registered before callback1, and callback1 has        *)
(* received every one of the two events published                          *)
C24_Witness ==
    /\ _subscribers["PIECE_MOVED"] = <<"error_callback", "callback1">>
    /\ _subscribers["PIECE_CAPTURED"] = <<>>
    /\ Len(published) >= 2
    /\ \A i \in 1..Len(published) : published[i].type = "PIECE_MOVED"
    /\ calls = <<"error_callback", "callback1">>
    /\ received_events["callback1"] = Len(published)
    /\ ~propagated

(* C25: unsubscribe takes that callback off the list of that type and      *)
(* changes nothing else: the others of the type keep their order, the      *)
(* lists of the other types stay, a callback that is not registered        *)
(* leaves everything as it is, and a publish calls no callback that is     *)
(* not in the list.                                                        *)
C25_UnsubscribeRemovesOne ==
    [][ /\ last_call'.op = "unsubscribe" =>
             LET t == last_call'.event_type
                 c == last_call'.callback
                 others(x) == x # c
             IN  /\ _subscribers'[t] = SelectSeq(_subscribers[t], others)
                 /\ \A u \in EventTypes \ {t} :
                        _subscribers'[u] = _subscribers[u]
                 /\ ~Contains(_subscribers[t], c) =>
                        _subscribers' = _subscribers
                 /\ UNCHANGED <<calls, propagated, received_events>>
        /\ Publishing =>
             \A i \in 1..Len(calls') :
                 Contains(_subscribers[PublishedEvent.type], calls'[i])
      ]_vars

(* callback1 received the first PIECE_MOVED event, was unsubscribed, and   *)
(* the second one went to callback2 alone, which kept its place            *)
C25_Witness ==
    /\ Len(published) = 2
    /\ \A i \in 1..Len(published) : published[i].type = "PIECE_MOVED"
    /\ received_events["callback1"] = 1
    /\ received_events["callback2"] = 2
    /\ calls = <<"callback2">>
    /\ _subscribers["PIECE_MOVED"] = <<"callback2">>
    /\ _subscribers["PIECE_CAPTURED"] = <<"callback1">>
    /\ last_call.op = "unsubscribe"

(* the events published after the last GAME_STARTED *)
SinceStart(events) ==
    LET starts == {i \in 1..Len(events) : events[i].type = "GAME_STARTED"}
        last == IF starts = {} THEN 0
                ELSE CHOOSE i \in starts : \A j \in starts : j <= i
    IN  SubSeq(events, last + 1, Len(events))

Started(events) == \E i \in 1..Len(events) : events[i].type = "GAME_STARTED"

(* the value of a piece by its type letter, as the rules give it *)
ValueOf(letter) ==
    CASE letter = "P" -> 1
      [] letter \in {"N", "B"} -> 3
      [] letter = "R" -> 5
      [] letter = "Q" -> 9
      [] OTHER -> 0

(* the sum of the values of the pieces of one side captured in events *)
RECURSIVE CapturedValue(_, _)
CapturedValue(events, side) ==
    IF events = <<>> THEN 0
    ELSE (IF /\ Head(events).type = "PIECE_CAPTURED"
             /\ Head(events).piece_type[2] = side
          THEN ValueOf(Head(events).piece_type[1]) ELSE 0)
         + CapturedValue(Tail(events), side)

(* C26: the white score is the sum of the values of the black pieces       *)
(* captured since the last GAME_STARTED, the black score that of the white *)
(* pieces; GAME_STARTED sets both to 0.                                    *)
C26_ScoreIsCapturedValue ==
    /\ _white_score = CapturedValue(SinceStart(published), "B")
    /\ _black_score = CapturedValue(SinceStart(published), "W")
    /\ (published # <<>> /\ published[Len(published)].type = "GAME_STARTED")
           => _white_score = 0 /\ _black_score = 0

(* a black queen was captured, the game was started again, and a black     *)
(* knight was captured: white has 3                                        *)
C26_Witness ==
    /\ Len(published) = 3
    /\ published[1].type = "PIECE_CAPTURED"
    /\ published[1].piece_type = <<"Q", "B", "", 1>>
    /\ published[2].type = "GAME_STARTED"
    /\ published[3].type = "PIECE_CAPTURED"
    /\ published[3].piece_type = <<"N", "B", "", 1>>
    /\ _white_score = 3
    /\ _black_score = 0

(* the moves and captures among events, in their order *)
Recorded(events) ==
    LET tracked(e) == e.type \in {"PIECE_MOVED", "PIECE_CAPTURED"}
    IN  SelectSeq(events, tracked)

(* C27: the history holds one entry for each PIECE_MOVED and each          *)
(* PIECE_CAPTURED since the last GAME_STARTED, in the order of the events, *)
(* after the start marker if the game was started and after nothing        *)
(* otherwise; get_move_count is the number of entries but the marker.      *)
C27_HistoryFollowsEvents ==
    LET recorded == Recorded(SinceStart(published))
        offset == IF Started(published) THEN 1 ELSE 0
    IN  /\ Len(moves) = offset + Len(recorded)
        /\ Started(published) => moves[1] = StartMarker
        /\ \A i \in 1..Len(recorded) :
              LET e == recorded[i]
                  entry == moves[offset + i]
              IN  IF e.type = "PIECE_MOVED"
                  THEN /\ entry.kind = "move"
                       /\ entry.piece = e.piece
                       /\ entry.from = e.from
                       /\ entry.to = e.to
                  ELSE /\ entry.kind = "capture"
                       /\ entry.piece = e.piece_type
                       /\ entry.by = e.captured_by
                       /\ entry.to = e.position
        /\ get_move_count(moves) = Len(recorded)

(* a move was recorded, the game was started, and a capture followed: the  *)
(* history is the marker and the capture, and one move is counted          *)
C27_Witness ==
    /\ Len(published) = 3
    /\ published[1].type = "PIECE_MOVED"
    /\ published[2].type = "GAME_STARTED"
    /\ published[3].type = "PIECE_CAPTURED"
    /\ Len(moves) = 2
    /\ moves[1] = StartMarker
    /\ moves[2].kind = "capture"
    /\ get_move_count(moves) = 1

(* the last n entries of a history *)
LastEntries(history, n) ==
    LET k == IF n < Len(history) THEN n ELSE Len(history)
    IN  SubSeq(history, Len(history) - k + 1, Len(history))

(* C28: get_last_moves(N) is the last min(N, length) entries of the        *)
(* history: all of it when N exceeds the length, nothing when N is 0.      *)
C28_LastMovesIsTail ==
    \A N \in 0..(MaxTracked + 1) :
        get_last_moves(moves, N) = LastEntries(moves, N)

(* a piece of that side stands on the cell *)
OccupiedBySide(cell, side) ==
    \E i \in 1..Len(pieces) :
        /\ piece[pieces[i]].cell = cell
        /\ _side_of(piece[pieces[i]].id) = side

(* the move is one the server has to refuse *)
Refusable(piece_id, from_pos, to_pos) ==
    \/ piece_id \notin DOMAIN piece_by_id
    \/ piece[piece_by_id[piece_id]].cell # from_pos
    \/ to_pos \notin Cells
    \/ OccupiedBySide(to_pos, _side_of(piece_id))

(* C29: with the game playing, a move of the client's own piece whose      *)
(* piece id is unknown, whose from cell is not the piece's cell, or whose  *)
(* destination is outside the board or held by a piece of the mover's side *)
(* is answered with an error and changes nothing of the game.              *)
C29_IllegalMoveRefused ==
    pc = "serve" =>
        \A color \in {"W", "B"}, piece_id \in ClientIds, from_pos \in Cells,
           to_pos \in Destinations, built \in BuildOutcomes :
            (/\ _side_of(piece_id) = color
             /\ Refusable(piece_id, from_pos, to_pos))
            => LET handled == handle_move(Self, game_status, color, piece_id,
                                          from_pos, to_pos, now, built)
               IN  /\ handled.reply.type = "error"
                   /\ handled.game = Self

----------------------------------------------------------------------------
(* the tick has run to its end: the win check has been made *)
EndOfTick == pc = "loop" /\ now >= 1

(* C32: at the end of every tick no live piece whose id starts with P is   *)
(* on its promotion row: a surviving pawn that reached it is promoted by   *)
(* the post-collision check of that tick.                                  *)
C32_NoPawnLeftOnBackRank ==
    EndOfTick =>
        \A o \in SeqSet(pieces) :
            piece[o].id[1] = "P" => ~OnOwnBackRank(piece[o])

(* a pawn reached its back rank by the update of this tick, no command was *)
(* drained in the tick, and at its end the piece is a live queen there     *)
C32_Witness ==
    /\ EndOfTick
    /\ \E o \in SeqSet(pieces) : \E i \in 1..Len(published) :
          /\ piece[o].id \in promoted_queens
          /\ OnOwnBackRank(piece[o])
          /\ IsPromotionEvent(published[i])
          /\ published[i].piece = piece[o].id
          /\ published[i].game_time_ms = now
    /\ \A i \in 1..Len(published) :
          published[i].type # "TURN_CHANGED"

(* the pieces a collision pass has removed *)
Captured == Objs \ SeqSet(pieces)

(* C35: once a piece is captured, a later command naming its id changes no *)
(* state and publishes no event: the id is treated as an unknown           *)
(* reference.                                                              *)
C35_CapturedIdIsUnknown ==
    [][ ( /\ Draining
          /\ Head(user_input_queue).type # "exit"
          /\ Head(user_input_queue).piece_id
                \in {piece[o].id : o \in Captured} )
        => UNCHANGED gvars ]_vars

(* the winner text of the GAME_ENDED event the win check published *)
Announced ==
    {published[i].winner :
        i \in {j \in 1..Len(published) :
                  /\ published[j].type = "GAME_ENDED"
                  /\ "winner" \in DOMAIN published[j]}}

LiveKing(side) ==
    \E o \in SeqSet(pieces) : piece[o].id[1] = "K" /\ piece[o].id[2] = side

(* C37: the winner the win check announces in GAME_ENDED is the side that  *)
(* has a live king; when both kings were captured in the same tick no side *)
(* is announced as winner.                                                 *)
C37_WinnerHasLiveKing ==
    /\ "White wins!" \in Announced => LiveKing("W")
    /\ "Black wins!" \in Announced => LiveKing("B")

InitialPieces == Cardinality(Objs)

C33_CaptureEventFields ==
    AfterCollisions =>
        \A i \in CaptureEvents :
            LET c == published[i].position
            IN  /\ c \in Cells
                /\ Contested(c)
                /\ winner[c] # None
                /\ \E p \in SeqSet(pos[c]) \ SeqSet(pieces) :
                       published[i].piece_type = piece[p].id
                /\ published[i].captured_by = piece[winner[c]].id
                /\ published[i].from_position = piece[winner[c]].moved_from

(* C34: the drain step of every tick terminates and never blocks: the loop *)
(* goes on from the drain to collision resolution, even while producers    *)
(* keep putting commands on the queue.                                     *)
C34_DrainTerminates == (pc = "drain") ~> (pc = "collide")

(* how often the callback was called in the publish of the step *)
TimesCalled(callback) ==
    Cardinality({i \in 1..Len(calls') : calls'[i] = callback})

(* C36: when a handler subscribes or unsubscribes a handler for the same   *)
(* event type while publish delivers an event, every handler registered    *)
(* for the type when the publish began is still called exactly once for    *)
(* the event.                                                              *)
C36_ReentrantPublishCallsEachOnce ==
    [][ Publishing =>
          \A callback \in SeqSet(_subscribers[PublishedEvent.type]) :
              TimesCalled(callback) = 1 ]_vars

(* the connections whose handler has registered them and has not yet come  *)
(* to its finally: accepted and not disconnected                           *)
Connected == {k \in Conns : handlers[k].stage \in {"welcome", "open"}}

(* C31: after any sequence of connections and disconnections at most two   *)
(* clients are registered, with distinct player ids and distinct colours,  *)
(* one white and one black; every accepted connection stays registered     *)
(* until it disconnects; and a connection is refused, with an error, when  *)
(* it arrives while two are registered.                                    *)
C31_RegistryOfTwo ==
    /\ Cardinality(Registered) <= 2
    /\ \A a, b \in Registered :
          a # b => clients[a].color # clients[b].color
    /\ \A j, k \in Connected :
          j # k => handlers[j].client_id # handlers[k].client_id
    /\ \A k \in Connected :
          /\ handlers[k].client_id \in Registered
          /\ clients[handlers[k].client_id].websocket = k
    /\ \A k \in Conns :
          handlers[k].stage = "refused" => handlers[k].client_id = player_id(3)

(* C38: under every interleaving of the connection and message handlers a  *)
(* move is executed on the game only while two clients are registered:     *)
(* once a disconnection has removed a client from the registry, no move of *)
(* the remaining client is executed until a new game has been started.     *)
C38_MoveOnlyWithTwoClients ==
    [][ (issued' # issued /\ reply'.type = "move_executed")
            => Cardinality(Registered) = 2 ]_vars

====
